---------------------------- MODULE Spec2Model ----------------------------
(***************************************************************************)
(* brightsky/tasks.py: the scheduler poll() and the retention run clean(). *)
(*                                                                         *)
(* poll() is modelled one queue round trip per step (lock expiry, pending  *)
(* snapshot, per-file check, submit, return) against a job queue with      *)
(* locks, workers and a clock.  clean() is modelled one commit per step    *)
(* against the sources / weather / synop / parsed_files tables.            *)
(***************************************************************************)
EXTENDS Integers, Sequences, FiniteSets, Bags, TLC

(***************************************************************************)
(* Bounds of the model.                                                    *)
(***************************************************************************)
MaxFiles == 3        \* longest result sequence of the poller
MaxQueue == 2        \* most pending 'process' jobs
TickLen == 900       \* seconds the clock advances in one step
MaxRuns == 2         \* runs of clean, one after the other
MaxFailingRuns == 1  \* runs of clean where a storage error may end a run
MaxClock == 1        \* hours the database clock may advance
MaxLedger == 1       \* rows of parsed_files at the start
MaxFilesConcurrent == 1  \* longest result when two poll calls overlap
Now0 == 200          \* the database clock at the start, in hours

(***************************************************************************)
(* Program constants.                                                      *)
(***************************************************************************)
LockTimeout == 1800  \* huey.expire_locks(1800)
ForecastExpiry == 3  \* '3 hours'
CurrentExpiry == 48  \* '48 hours'
SynopExpiry == 30    \* '30 hours'
ParsedFilesExpiry == 168  \* '1 week', in hours

(***************************************************************************)
(* URLs are paths, a sequence of segments; os.path.basename is the last    *)
(* segment.  One URL has a parser, the other has none.                     *)
(***************************************************************************)
UrlMosmix == <<"weather", "MOSMIX_S_LATEST_240.kmz">>
UrlReadme == <<"weather", "README.txt">>
Urls == {UrlMosmix, UrlReadme}

basename(path) == path[Len(path)]

NoParser == -1

\* brightsky.parsers.get_parser: the parser registry, by file name.
ParserPriority ==
  [b \in {basename(u) : u \in Urls} |->
     CASE b = "MOSMIX_S_LATEST_240.kmz" -> 20
       [] OTHER -> NoParser]

get_parser(filename) == ParserPriority[filename]

Task(name, url, priority) == [name |-> name, url |-> url, priority |-> priority]

FileSeqs == UNION {[1..n -> Urls] : n \in 0..MaxFiles}

NoLock == -1
\* lock ages past the timeout are not told apart
MaxAge == LockTimeout + TickLen
Pollers == {1, 2}

VARIABLES
  \* the queue (huey): pending tasks, and the age of each key's lock
  queue, locks,
  \* poll(), per invocation
  pc, updated_files, enqueue, expired_locks, pending_urls, idx, enqueued,
  result,
  \* history of the current cycle: one entry per examined file, and the
  \* keys whose lock the cycle expired while no 'process' job was pending
  examined, abandoned,
  \* history across cycles: 'process' jobs submitted per URL since a worker
  \* last started a job for it, and whether a cycle discovered a URL twice
  subs, dupSeen,
  \* the database: the sources catalogue, the time-series tables, the
  \* ledger of parsed files, and current_timestamp (hours)
  sources, weather, synop, parsed_files, now,
  \* clean(): its position (the pass, the table and observation type of
  \* Pass B, the pattern of Pass C)
  cpc, tbl, obs, pat,
  \* history of clean: the run, the rows it deleted so far, whether the
  \* clock advanced since the first run began, weather as Pass A found it,
  \* the sources as the previous run left them and the rows it deleted
  run, ndeleted, ticked, weatherA, sourcesPrev, deletedPrev,
  \* history of the current run: the committed database at the start of
  \* each pass reached so far (Pass A, Pass B, Pass C), and the statements
  \* committed so far, in order
  snap, log

pollVars == <<queue, locks, pc, updated_files, enqueue, expired_locks,
              pending_urls, idx, enqueued, result, examined, abandoned, subs,
              dupSeen>>

dbVars == <<sources, weather, synop, parsed_files, now, cpc, tbl, obs, pat,
            run, ndeleted, ticked, weatherA, sourcesPrev, deletedPrev, snap,
            log>>

vars == <<pollVars, dbVars>>

(***************************************************************************)
(* The queue interface.                                                    *)
(***************************************************************************)
\* huey.pending(): the tasks not yet started
Pending == BagToSet(queue)

\* huey.is_locked(key)
is_locked(key) == locks[key] # NoLock

\* huey.expire_locks(timeout): the keys whose lock is older than timeout
ExpiredKeys(timeout) == {u \in Urls : locks[u] # NoLock /\ locks[u] > timeout}

LocksAfterExpiry(timeout) ==
  [u \in Urls |-> IF u \in ExpiredKeys(timeout) THEN NoLock ELSE locks[u]]

\* process(url, priority=...): one more pending 'process' task
Submit(url, priority) == queue (+) SetToBag({Task("process", url, priority)})

NumProcess == BagCardinality([t \in {x \in Pending : x.name = "process"} |-> queue[t]])

\* the URLs that tasks of another type are queued with
OtherUrls == Urls

HasDuplicate(fs) == \E i, j \in 1..Len(fs) : i < j /\ fs[i] = fs[j]

(***************************************************************************)
(* Initial state: an empty queue, no locks, no poll running.               *)
(***************************************************************************)
PollInit ==
  /\ queue = EmptyBag
  /\ locks = [u \in Urls |-> NoLock]
  /\ pc = [p \in Pollers |-> "idle"]
  /\ updated_files = [p \in Pollers |-> <<>>]
  /\ enqueue = [p \in Pollers |-> FALSE]
  /\ expired_locks = [p \in Pollers |-> {}]
  /\ pending_urls = [p \in Pollers |-> {}]
  /\ idx = [p \in Pollers |-> 1]
  /\ enqueued = [p \in Pollers |-> 0]
  /\ result = [p \in Pollers |-> <<>>]
  /\ examined = [p \in Pollers |-> <<>>]
  /\ abandoned = [p \in Pollers |-> {}]
  /\ subs = [u \in Urls |-> 0]
  /\ dupSeen = FALSE

(***************************************************************************)
(* poll(enqueue), lines 34-59.                                             *)
(***************************************************************************)
\* PollStart without the test of line 36: the queue is used in both modes.
PollStartIgnoresFlag(p, fs, enq) ==
  /\ pc[p] \in {"idle", "done", "raised"}
  /\ updated_files' = [updated_files EXCEPT ![p] = fs]
  /\ enqueue' = [enqueue EXCEPT ![p] = enq]
  /\ pc' = [pc EXCEPT ![p] = "expire"]
  /\ expired_locks' = [expired_locks EXCEPT ![p] = {}]
  /\ pending_urls' = [pending_urls EXCEPT ![p] = {}]
  /\ idx' = [idx EXCEPT ![p] = 1]
  /\ enqueued' = [enqueued EXCEPT ![p] = 0]
  /\ result' = [result EXCEPT ![p] = <<>>]
  /\ examined' = [examined EXCEPT ![p] = <<>>]
  /\ abandoned' = [abandoned EXCEPT ![p] = {}]
  /\ dupSeen' = (dupSeen \/ HasDuplicate(fs))
  /\ UNCHANGED <<queue, locks, subs>>
  /\ UNCHANGED dbVars

\* line 35: updated_files = DWDPoller().poll(); line 36: if enqueue
PollStart(p, fs, enq) ==
  /\ pc[p] \in {"idle", "done", "raised"}
  /\ updated_files' = [updated_files EXCEPT ![p] = fs]
  /\ enqueue' = [enqueue EXCEPT ![p] = enq]
  /\ pc' = [pc EXCEPT ![p] = IF enq THEN "expire" ELSE "return"]
  /\ expired_locks' = [expired_locks EXCEPT ![p] = {}]
  /\ pending_urls' = [pending_urls EXCEPT ![p] = {}]
  /\ idx' = [idx EXCEPT ![p] = 1]
  /\ enqueued' = [enqueued EXCEPT ![p] = 0]
  /\ result' = [result EXCEPT ![p] = <<>>]
  /\ examined' = [examined EXCEPT ![p] = <<>>]
  /\ abandoned' = [abandoned EXCEPT ![p] = {}]
  /\ dupSeen' = (dupSeen \/ (enq /\ HasDuplicate(fs)))
  /\ UNCHANGED <<queue, locks, subs>>
  /\ UNCHANGED dbVars

\* lines 41-42: pending_urls = [t.args[0] for t in huey.pending()
\*                              if t.name == 'process']
PendingProcessUrls == {t.url : t \in {x \in Pending : x.name = "process"}}

\* PollExpire with a timeout of 0: every lock that has aged is released.
PollExpireAll(p) ==
  /\ pc[p] = "expire"
  /\ expired_locks' = [expired_locks EXCEPT ![p] = ExpiredKeys(0)]
  /\ locks' = LocksAfterExpiry(0)
  /\ abandoned' = [abandoned EXCEPT ![p] = ExpiredKeys(0) \ PendingProcessUrls]
  /\ pc' = [pc EXCEPT ![p] = "pending"]
  /\ UNCHANGED <<queue, updated_files, enqueue, pending_urls, idx, enqueued,
                 result, examined, subs, dupSeen>>
  /\ UNCHANGED dbVars

\* line 38: expired_locks := huey.expire_locks(1800)
PollExpire(p) ==
  /\ pc[p] = "expire"
  /\ expired_locks' = [expired_locks EXCEPT ![p] = ExpiredKeys(LockTimeout)]
  /\ locks' = LocksAfterExpiry(LockTimeout)
  /\ abandoned' = [abandoned EXCEPT ![p] =
                     ExpiredKeys(LockTimeout) \ PendingProcessUrls]
  /\ pc' = [pc EXCEPT ![p] = "pending"]
  /\ UNCHANGED <<queue, updated_files, enqueue, pending_urls, idx, enqueued,
                 result, examined, subs, dupSeen>>
  /\ UNCHANGED dbVars

PollSnapshot(p) ==
  /\ pc[p] = "pending"
  /\ pending_urls' = [pending_urls EXCEPT ![p] = PendingProcessUrls]
  /\ pc' = [pc EXCEPT ![p] = "loop"]
  /\ UNCHANGED <<queue, locks, updated_files, enqueue, expired_locks, idx,
                 enqueued, result, examined, subs, dupSeen>>
  /\ UNCHANGED abandoned
  /\ UNCHANGED dbVars

\* Skips without its first test: the pending snapshot is not consulted.
SkipsLockedOnly(p, url) == is_locked(url)

\* Skips without its second test: the lock is not consulted.
SkipsPendingOnly(p, url) == url \in pending_urls[p]

\* lines 46-51: the file is skipped when its URL is in pending_urls, or
\* else when the queue reports it locked
Skips(p, url) == url \in pending_urls[p] \/ is_locked(url)

\* lines 44-52: one file examined
PollCheck(p) ==
  /\ pc[p] = "loop"
  /\ idx[p] <= Len(updated_files[p])
  /\ LET url == updated_files[p][idx[p]]
         skip == Skips(p, url)
     IN /\ examined' = [examined EXCEPT ![p] =
               Append(@, [url |-> url,
                          queued |-> url \in pending_urls[p],
                          locked |-> is_locked(url),
                          submitted |-> FALSE])]
        /\ pc' = [pc EXCEPT ![p] = IF skip THEN "loop" ELSE "enqueue"]
        /\ idx' = [idx EXCEPT ![p] = IF skip THEN @ + 1 ELSE @]
  /\ UNCHANGED <<queue, locks, updated_files, enqueue, expired_locks,
                 pending_urls, enqueued, result, subs, dupSeen>>
  /\ UNCHANGED abandoned
  /\ UNCHANGED dbVars

\* lines 53-55: parser_cls = get_parser(os.path.basename(url));
\* process(url, priority=parser_cls.PRIORITY); enqueued += 1.
\* Without a parser the statement raises, and nothing in poll catches it.
PollEnqueue(p) ==
  /\ pc[p] = "enqueue"
  /\ LET url == updated_files[p][idx[p]]
         priority == get_parser(basename(url))
     IN IF priority = NoParser
        THEN /\ pc' = [pc EXCEPT ![p] = "raised"]
             /\ UNCHANGED <<queue, idx, enqueued, examined, subs>>
        ELSE /\ NumProcess < MaxQueue
             /\ queue' = Submit(url, priority)
             /\ enqueued' = [enqueued EXCEPT ![p] = @ + 1]
             /\ idx' = [idx EXCEPT ![p] = @ + 1]
             /\ examined' = [examined EXCEPT ![p][Len(examined[p])].submitted = TRUE]
             /\ subs' = [subs EXCEPT ![url] = @ + 1]
             /\ pc' = [pc EXCEPT ![p] = "loop"]
  /\ UNCHANGED <<locks, updated_files, enqueue, expired_locks, pending_urls,
                 result, dupSeen>>
  /\ UNCHANGED abandoned
  /\ UNCHANGED dbVars

\* line 59: return updated_files (after the loop, or at once without
\* enqueue)
PollReturn(p) ==
  /\ \/ pc[p] = "return"
     \/ pc[p] = "loop" /\ idx[p] > Len(updated_files[p])
  /\ result' = [result EXCEPT ![p] = updated_files[p]]
  /\ pc' = [pc EXCEPT ![p] = "done"]
  /\ UNCHANGED <<queue, locks, updated_files, enqueue, expired_locks,
                 pending_urls, idx, enqueued, examined, subs, dupSeen>>
  /\ UNCHANGED abandoned
  /\ UNCHANGED dbVars

(***************************************************************************)
(* The environment of poll: workers, other producers, the clock.           *)
(***************************************************************************)
\* A worker takes a pending task off the queue.  A 'process' task runs
\* under the lock of its URL; the lock is taken when it is free.
WorkerStart(t) ==
  /\ t \in Pending
  /\ queue' = queue (-) SetToBag({t})
  /\ IF t.name = "process"
     THEN /\ locks' = [locks EXCEPT ![t.url] = IF @ = NoLock THEN 0 ELSE @]
          /\ subs' = [subs EXCEPT ![t.url] = 0]
     ELSE UNCHANGED <<locks, subs>>
  /\ UNCHANGED <<pc, updated_files, enqueue, expired_locks, pending_urls,
                 idx, enqueued, result, examined, dupSeen>>
  /\ UNCHANGED abandoned
  /\ UNCHANGED dbVars

\* A worker completes its job and releases the lock.  A crashed worker
\* never takes this step: its lock stays until it is expired.
WorkerFinish(u) ==
  /\ locks[u] # NoLock
  /\ locks' = [locks EXCEPT ![u] = NoLock]
  /\ UNCHANGED <<queue, pc, updated_files, enqueue, expired_locks,
                 pending_urls, idx, enqueued, result, examined, subs,
                 dupSeen>>
  /\ UNCHANGED abandoned
  /\ UNCHANGED dbVars

\* A task of another type, with a URL as its first argument, is queued
\* (one at a time).
EnqueueOther(u) ==
  /\ \A t \in Pending : t.name = "process"
  /\ queue' = queue (+) SetToBag({Task("other", u, 0)})
  /\ UNCHANGED <<locks, pc, updated_files, enqueue, expired_locks,
                 pending_urls, idx, enqueued, result, examined, subs,
                 dupSeen>>
  /\ UNCHANGED abandoned
  /\ UNCHANGED dbVars

\* Time passes: every held lock ages.
Tick ==
  /\ \E u \in Urls : locks[u] # NoLock /\ locks[u] < MaxAge
  /\ locks' = [u \in Urls |->
                 IF locks[u] = NoLock THEN NoLock
                 ELSE IF locks[u] + TickLen > MaxAge THEN MaxAge
                 ELSE locks[u] + TickLen]
  /\ UNCHANGED <<queue, pc, updated_files, enqueue, expired_locks,
                 pending_urls, idx, enqueued, result, examined, subs,
                 dupSeen>>
  /\ UNCHANGED abandoned
  /\ UNCHANGED dbVars

PollStep(p) ==
  \/ \E fs \in FileSeqs, enq \in BOOLEAN : PollStart(p, fs, enq)
  \/ PollExpire(p)
  \/ PollSnapshot(p)
  \/ PollCheck(p)
  \/ PollEnqueue(p)
  \/ PollReturn(p)

Environment ==
  \/ \E t \in Pending : WorkerStart(t)
  \/ \E u \in Urls : WorkerFinish(u)
  \/ \E u \in OtherUrls : EnqueueOther(u)
  \/ Tick

(***************************************************************************)
(* The database of clean().  Timestamps are hours.                         *)
(***************************************************************************)
SourceIds == {1, 2}

\* two stations with the same WMO id and different DWD ids
FirstStation == [wmo |-> "10384", dwd |-> "00403"]
Stations == {FirstStation, [wmo |-> "10384", dwd |-> "00433"]}

ObservationTypes == {"recent", "historical", "forecast", "current", "synop"}

\* the table that holds the rows of a source, by its observation type
TableOf(observation_type) ==
  IF observation_type = "synop" THEN "synop" ELSE "weather"

\* the timestamps of the rows of each table, around the expiry cut-offs
TimesOf(table) ==
  IF table = "weather"
  THEN {Now0 - CurrentExpiry, Now0 - ForecastExpiry}
  ELSE {Now0 - SynopExpiry - 1, Now0 - SynopExpiry}

Min(S) == CHOOSE x \in S : \A y \in S : x <= y
Max(S) == CHOOSE x \in S : \A y \in S : x >= y

\* lines 63-71: expiry_intervals, in the order of the dict
expiry_intervals ==
  << [table |-> "weather",
      expires |-> << [observation_type |-> "forecast", interval |-> ForecastExpiry],
                     [observation_type |-> "current", interval |-> CurrentExpiry] >>],
     [table |-> "synop",
      expires |-> << [observation_type |-> "synop", interval |-> SynopExpiry] >>] >>

\* lines 72-74: parsed_files_expiry_intervals; a pattern is its characters
StationFilePattern ==
  <<"%", "/", "Z", "_", "_", "C", "_", "E", "D", "Z", "W", "_", "%">>

parsed_files_expiry_intervals ==
  << [filename |-> StationFilePattern, interval |-> ParsedFilesExpiry] >>

\* SQL LIKE: % matches any run of characters, _ any one character
RECURSIVE Like(_, _)
Like(str, pattern) ==
  IF pattern = <<>> THEN str = <<>>
  ELSE IF Head(pattern) = "%"
       THEN Like(str, Tail(pattern)) \/ (str # <<>> /\ Like(Tail(str), pattern))
       ELSE /\ str # <<>>
            /\ Head(pattern) = "_" \/ Head(pattern) = Head(str)
            /\ Like(Tail(str), Tail(pattern))

UrlStationFile ==
  <<"w", "/", "Z", "_", "_", "C", "_", "E", "D", "Z", "W", "_", "1">>
UrlAirTemperature == <<"w", "/", "T", "U">>
LedgerUrls == {UrlStationFile, UrlAirTemperature}
LedgerTimes == {Now0 - ParsedFilesExpiry - 1, Now0 - ParsedFilesExpiry}

Rows(table) == IF table = "weather" THEN weather ELSE synop

RowsOf(table, id) == {r \in Rows(table) : r.source_id = id}

(***************************************************************************)
(* Initial database: every source of the catalogue is one (station,        *)
(* observation type), its rows are in the table of its type, and its       *)
(* cached bounds contain its rows.  Only recent and historical sources     *)
(* are told apart by station: clean reads the station of no other source.  *)
(***************************************************************************)
SourceStates ==
  {x \in [station : Stations, observation_type : ObservationTypes,
          rows : SUBSET (TimesOf("weather") \cup TimesOf("synop")),
          first_record : TimesOf("weather") \cup TimesOf("synop"),
          last_record : TimesOf("weather") \cup TimesOf("synop")] :
     LET T == TimesOf(TableOf(x.observation_type))
     IN /\ x.observation_type \in {"recent", "historical"} \/ x.station = FirstStation
        /\ x.rows \subseteq T
        /\ x.first_record \in T /\ x.last_record \in T
        /\ x.first_record <= x.last_record
        /\ \A t \in x.rows : x.first_record <= t /\ t <= x.last_record}

\* Source ids are opaque keys, and clean treats all alike: of the
\* catalogues that differ only by a renumbering, the one whose ids follow
\* the order of the observation types stands for all.
TypeRank(observation_type) ==
  CHOOSE k \in 1..5 :
    <<"recent", "historical", "forecast", "current", "synop">>[k]
      = observation_type

DbInit ==
  /\ \E f \in [SourceIds -> SourceStates] :
       /\ \A i, j \in SourceIds :
            i # j => \/ f[i].station # f[j].station
                     \/ f[i].observation_type # f[j].observation_type
       /\ \A i, j \in SourceIds :
            i < j => TypeRank(f[i].observation_type)
                       <= TypeRank(f[j].observation_type)
       /\ sources = [i \in SourceIds |->
                       [wmo_station_id |-> f[i].station.wmo,
                        dwd_station_id |-> f[i].station.dwd,
                        observation_type |-> f[i].observation_type,
                        first_record |-> f[i].first_record,
                        last_record |-> f[i].last_record]]
       /\ weather = {[source_id |-> i, timestamp |-> t] :
                       <<i, t>> \in {y \in SourceIds \X TimesOf("weather") :
                          /\ TableOf(f[y[1]].observation_type) = "weather"
                          /\ y[2] \in f[y[1]].rows}}
       /\ synop = {[source_id |-> i, timestamp |-> t] :
                     <<i, t>> \in {y \in SourceIds \X TimesOf("synop") :
                        /\ TableOf(f[y[1]].observation_type) = "synop"
                        /\ y[2] \in f[y[1]].rows}}
  /\ parsed_files \in {P \in SUBSET [url : LedgerUrls, parsed_at : LedgerTimes] :
                         Cardinality(P) <= MaxLedger}
  /\ now = Now0
  /\ cpc = "idle"
  /\ tbl = 1
  /\ obs = 1
  /\ pat = 1
  /\ run = 0
  /\ ndeleted = 0
  /\ ticked = FALSE
  /\ weatherA = {}
  /\ sourcesPrev = sources
  /\ deletedPrev = 0
  /\ snap = <<>>
  /\ log = <<>>

(***************************************************************************)
(* clean(), lines 62-160: one step per commit.                             *)
(***************************************************************************)
\* the committed contents of the database
Db == [sources |-> sources, weather |-> weather, synop |-> synop,
       parsed_files |-> parsed_files]

\* line 75: a run begins
CleanStart ==
  /\ cpc \in {"idle", "done"}
  /\ run < MaxRuns
  /\ cpc' = "passA"
  /\ run' = run + 1
  /\ ndeleted' = 0
  /\ ticked' = (run # 0 /\ ticked)
  /\ sourcesPrev' = sources
  /\ deletedPrev' = ndeleted
  /\ snap' = <<Db>>
  /\ log' = <<>>
  /\ UNCHANGED <<sources, weather, synop, parsed_files, now, tbl, obs, pat,
                 weatherA>>
  /\ UNCHANGED pollVars

\* lines 85-98: the recent sources overlapped by the historical source of
\* the same station, each with the threshold of its rows
ObsoleteRecent ==
  {[id |-> r, threshold |-> sources[h].last_record] :
     <<r, h>> \in {p \in SourceIds \X SourceIds :
        /\ sources[p[1]].wmo_station_id = sources[p[2]].wmo_station_id
        /\ sources[p[1]].dwd_station_id = sources[p[2]].dwd_station_id
        /\ sources[p[1]].observation_type = "recent"
        /\ sources[p[2]].observation_type = "historical"
        /\ sources[p[1]].first_record < sources[p[2]].last_record}}

\* ObsoleteRows without the source_id test: the rows of every source go.
ObsoleteRowsAnySource(row) ==
  {w \in weather : w.timestamp < row.threshold}

\* ObsoleteRows with <= for <: the row at the threshold goes too.
ObsoleteRowsInclusive(row) ==
  {w \in weather : w.source_id = row.id /\ w.timestamp <= row.threshold}

\* lines 103-108: DELETE FROM weather WHERE source_id = id AND timestamp < threshold
ObsoleteRows(row) ==
  {w \in weather : w.source_id = row.id /\ w.timestamp < row.threshold}

\* lines 85-109: Pass A, committed once
PassA ==
  /\ cpc = "passA"
  /\ LET gone == UNION {ObsoleteRows(row) : row \in ObsoleteRecent}
     IN /\ weather' = weather \ gone
        /\ ndeleted' = ndeleted + Cardinality(gone)
        /\ snap' = Append(snap, [Db EXCEPT !.weather = weather \ gone])
  /\ log' = Append(log, [op |-> "overlap"])
  /\ weatherA' = weather
  /\ cpc' = "passB_delete"
  /\ tbl' = 1
  /\ obs' = 1
  /\ UNCHANGED <<sources, synop, parsed_files, now, pat, run, ticked,
                 sourcesPrev, deletedPrev>>
  /\ UNCHANGED pollVars

\* Expired with <= for <: the row at the cut-off goes too.
ExpiredInclusive(table, observation_type, interval) ==
  {r \in Rows(table) :
     /\ r.source_id \in {id \in SourceIds :
                           sources[id].observation_type = observation_type}
     /\ r.timestamp <= now - interval}

\* lines 116-120: the rows of the table owned by a source of the
\* observation type and older than the interval
Expired(table, observation_type, interval) ==
  {r \in Rows(table) :
     /\ r.source_id \in {id \in SourceIds :
                           sources[id].observation_type = observation_type}
     /\ r.timestamp < now - interval}

\* PassBDelete with the UPDATE inside the inner loop: the bounds are
\* recomputed after the first DELETE of the table.
PassBDeleteThenUpdate ==
  /\ cpc = "passB_delete"
  /\ LET table == expiry_intervals[tbl].table
         e == expiry_intervals[tbl].expires[obs]
         gone == Expired(table, e.observation_type, e.interval)
     IN /\ weather' = IF table = "weather" THEN weather \ gone ELSE weather
        /\ synop' = IF table = "synop" THEN synop \ gone ELSE synop
        /\ ndeleted' = ndeleted + Cardinality(gone)
        /\ log' = Append(log, [op |-> "expire", table |-> table,
                               observation_type |-> e.observation_type])
  /\ obs' = obs /\ cpc' = "passB_update"
  /\ UNCHANGED <<sources, parsed_files, now, tbl, pat, run, ticked, weatherA,
                 sourcesPrev, deletedPrev, snap>>
  /\ UNCHANGED pollVars

\* lines 113-128: one DELETE of Pass B, committed
PassBDelete ==
  /\ cpc = "passB_delete"
  /\ LET table == expiry_intervals[tbl].table
         e == expiry_intervals[tbl].expires[obs]
         gone == Expired(table, e.observation_type, e.interval)
     IN /\ weather' = IF table = "weather" THEN weather \ gone ELSE weather
        /\ synop' = IF table = "synop" THEN synop \ gone ELSE synop
        /\ ndeleted' = ndeleted + Cardinality(gone)
        /\ log' = Append(log, [op |-> "expire", table |-> table,
                               observation_type |-> e.observation_type])
  /\ IF obs < Len(expiry_intervals[tbl].expires)
     THEN obs' = obs + 1 /\ cpc' = cpc
     ELSE obs' = obs /\ cpc' = "passB_update"
  /\ UNCHANGED <<sources, parsed_files, now, tbl, pat, run, ticked, weatherA,
                 sourcesPrev, deletedPrev, snap>>
  /\ UNCHANGED pollVars

\* RecordRange with MIN for MAX.
RecordRangeMinOnly(table) ==
  [id \in {r.source_id : r \in Rows(table)} |->
     [first_record |-> Min({r.timestamp : r \in RowsOf(table, id)}),
      last_record |-> Min({r.timestamp : r \in RowsOf(table, id)})]]

\* RecordRange without GROUP BY: the range of the whole table.
RecordRangeUngrouped(table) ==
  [id \in {r.source_id : r \in Rows(table)} |->
     [first_record |-> Min({r.timestamp : r \in Rows(table)}),
      last_record |-> Max({r.timestamp : r \in Rows(table)})]]

\* RecordRange with MIN and MAX exchanged.
RecordRangeSwapped(table) ==
  [id \in {r.source_id : r \in Rows(table)} |->
     [first_record |-> Max({r.timestamp : r \in RowsOf(table, id)}),
      last_record |-> Min({r.timestamp : r \in RowsOf(table, id)})]]

\* RecordRange with MAX for MIN.
RecordRangeMaxOnly(table) ==
  [id \in {r.source_id : r \in Rows(table)} |->
     [first_record |-> Max({r.timestamp : r \in RowsOf(table, id)}),
      last_record |-> Max({r.timestamp : r \in RowsOf(table, id)})]]

\* RecordRange from sources LEFT JOIN the table: a source without rows
\* gets the aggregates of no row, NULL (written 0).
RecordRangeAllSources(table) ==
  [id \in SourceIds |->
     IF RowsOf(table, id) = {}
     THEN [first_record |-> 0, last_record |-> 0]
     ELSE [first_record |-> Min({r.timestamp : r \in RowsOf(table, id)}),
           last_record |-> Max({r.timestamp : r \in RowsOf(table, id)})]]

\* lines 135-141: record_range, one row per source_id of the table
RecordRange(table) ==
  [id \in {r.source_id : r \in Rows(table)} |->
     [first_record |-> Min({r.timestamp : r \in RowsOf(table, id)}),
      last_record |-> Max({r.timestamp : r \in RowsOf(table, id)})]]

\* lines 129-144: the UPDATE of sources from the table, committed
PassBUpdate ==
  /\ cpc = "passB_update"
  /\ LET range == RecordRange(expiry_intervals[tbl].table)
     IN sources' = [id \in SourceIds |->
                      IF id \in DOMAIN range
                      THEN [sources[id] EXCEPT
                              !.first_record = range[id].first_record,
                              !.last_record = range[id].last_record]
                      ELSE sources[id]]
  /\ log' = Append(log, [op |-> "bounds",
                         table |-> expiry_intervals[tbl].table])
  /\ IF tbl < Len(expiry_intervals)
     THEN /\ tbl' = tbl + 1 /\ obs' = 1 /\ cpc' = "passB_delete" /\ pat' = pat
          /\ snap' = snap
     ELSE /\ tbl' = tbl /\ obs' = obs /\ cpc' = "passC" /\ pat' = 1
          /\ snap' = Append(snap, [Db EXCEPT !.sources = sources'])
  /\ UNCHANGED <<weather, synop, parsed_files, now, run, ndeleted, ticked,
                 weatherA, sourcesPrev, deletedPrev>>
  /\ UNCHANGED pollVars

\* ExpiredFiles without the LIKE: every old ledger row goes.
ExpiredFilesAnyUrl(filename, interval) ==
  {f \in parsed_files : f.parsed_at < now - interval}

\* lines 151-153: the ledger rows the pattern matches, older than the interval
ExpiredFiles(filename, interval) ==
  {f \in parsed_files : Like(f.url, filename) /\ f.parsed_at < now - interval}

\* lines 148-156: one DELETE of Pass C, committed
PassC ==
  /\ cpc = "passC"
  /\ LET e == parsed_files_expiry_intervals[pat]
         gone == ExpiredFiles(e.filename, e.interval)
     IN /\ parsed_files' = parsed_files \ gone
        /\ ndeleted' = ndeleted + Cardinality(gone)
        /\ log' = Append(log, [op |-> "ledger", filename |-> e.filename])
  /\ IF pat < Len(parsed_files_expiry_intervals)
     THEN pat' = pat + 1 /\ cpc' = cpc
     ELSE pat' = pat /\ cpc' = "done"
  /\ UNCHANGED <<sources, weather, synop, now, tbl, obs, run, ticked,
                 weatherA, sourcesPrev, deletedPrev, snap>>
  /\ UNCHANGED pollVars

\* current_timestamp advances between two transactions
Clock ==
  /\ now < Now0 + MaxClock
  /\ now' = now + 1
  /\ ticked' = TRUE
  /\ UNCHANGED <<sources, weather, synop, parsed_files, cpc, tbl, obs, pat,
                 run, ndeleted, weatherA, sourcesPrev, deletedPrev, snap, log>>
  /\ UNCHANGED pollVars

\* A storage error in a statement or a commit of the open transaction:
\* the exception leaves clean (nothing in it catches one) and the
\* connection rolls back what was not committed.  The database the run
\* leaves behind is one a later run can start from.
Abort ==
  /\ cpc \in {"passA", "passB_delete", "passB_update", "passC"}
  /\ cpc' = IF cpc = "passA" THEN "failedA"
            ELSE IF cpc = "passC" THEN "failedC"
            ELSE "failedB"
  /\ UNCHANGED <<sources, weather, synop, parsed_files, now, tbl, obs, pat,
                 run, ndeleted, ticked, weatherA, sourcesPrev, deletedPrev,
                 snap, log>>
  /\ UNCHANGED pollVars

\* no clean running, an empty database
DbIdle ==
  /\ sources = <<>>
  /\ weather = {}
  /\ synop = {}
  /\ parsed_files = {}
  /\ now = Now0
  /\ cpc = "idle"
  /\ tbl = 1
  /\ obs = 1
  /\ pat = 1
  /\ run = 0
  /\ ndeleted = 0
  /\ ticked = FALSE
  /\ weatherA = {}
  /\ sourcesPrev = <<>>
  /\ deletedPrev = 0
  /\ snap = <<>>
  /\ log = <<>>

CleanStep ==
  \/ CleanStart
  \/ PassA
  \/ PassBDelete
  \/ PassBUpdate
  \/ PassC
  \/ Clock

\* One scheduler: poll cycles follow one another.
PollNext == PollStep(1) \/ Environment

PollSpecInit == PollInit /\ DbIdle

PollSpec == PollSpecInit /\ [][PollNext]_vars

\* Two schedulers at once, each on a result of at most
\* MaxFilesConcurrent files, both with enqueue.
ShortFileSeqs == {fs \in FileSeqs : Len(fs) <= MaxFilesConcurrent}

ConcurrentStep(p) ==
  \/ \E fs \in ShortFileSeqs : PollStart(p, fs, TRUE)
  \/ PollExpire(p)
  \/ PollSnapshot(p)
  \/ PollCheck(p)
  \/ PollEnqueue(p)
  \/ PollReturn(p)

ConcurrentNext == (\E p \in Pollers : ConcurrentStep(p)) \/ Environment

ConcurrentSpec == PollSpecInit /\ [][ConcurrentNext]_vars

\* The retention engine alone, on any initial database.
CleanNext == CleanStep

CleanSpecInit == PollInit /\ DbInit

CleanSpec == CleanSpecInit /\ [][CleanNext]_vars

\* The retention engine where a storage error may end a run.
FailingStart == run < MaxFailingRuns /\ CleanStart

FailingCleanNext ==
  \/ FailingStart
  \/ PassA
  \/ PassBDelete
  \/ PassBUpdate
  \/ PassC
  \/ Abort
  \/ Clock

FailingCleanSpec == CleanSpecInit /\ [][FailingCleanNext]_vars

Init == PollInit /\ DbInit

Next == PollNext \/ CleanNext

Spec == Init /\ [][Next]_vars

(***************************************************************************)
(* The claims about poll().                                                *)
(***************************************************************************)
\* the poll call of the scheduler is over, by return or by an exception
CycleOver == pc[1] \in {"done", "raised"} /\ enqueue[1]

HasParser(url) == get_parser(basename(url)) # NoParser

\* what the cycle did with the k-th discovered file
Submitted(k) == k <= Len(examined[1]) /\ examined[1][k].submitted
ReportedLocked(k) == k <= Len(examined[1]) /\ examined[1][k].locked

LockRespect ==
  \A k \in 1..Len(examined[1]) :
    examined[1][k].locked => ~examined[1][k].submitted

\* a cycle returned having skipped a file that was locked and not queued
LockRespectWitness ==
  /\ pc[1] = "done" /\ enqueue[1]
  /\ \E k \in 1..Len(examined[1]) :
       /\ examined[1][k].locked /\ ~examined[1][k].queued
       /\ ~examined[1][k].submitted

\* C3: when the poll call is over, a job was submitted for a discovered
\* file (with a parser) if and only if its URL was not in the pending
\* snapshot and was not reported locked; every pending 'process' job has
\* the priority the registry resolves for the basename of its URL.
ExactSubmissionSet ==
  /\ CycleOver =>
       \A k \in 1..Len(updated_files[1]) :
         HasParser(updated_files[1][k]) =>
           (Submitted(k) <=> /\ updated_files[1][k] \notin pending_urls[1]
                             /\ ~ReportedLocked(k))
  /\ \A t \in Pending :
       t.name = "process" => t.priority = get_parser(basename(t.url))

\* C4: when the poll call is over, every discovered URL (with a parser)
\* whose lock the cycle expired, and that had no pending job then, was
\* submitted in this cycle; no file is examined before the expiry.
StaleLockRecovery ==
  /\ pc[1] = "expire" => examined[1] = <<>>
  /\ CycleOver =>
       \A k \in 1..Len(updated_files[1]) :
         LET url == updated_files[1][k]
         IN (/\ HasParser(url)
             /\ url \in abandoned[1])
            => \E j \in 1..Len(examined[1]) :
                 examined[1][j].url = url /\ examined[1][j].submitted

\* C5: a file without a parser does not end the cycle: the poll call
\* returns the poller's result, and every discovered file with a parser
\* that was neither queued nor reported locked was submitted.
UnknownFormatSkipped ==
  CycleOver =>
    /\ pc[1] = "done"
    /\ result[1] = updated_files[1]
    /\ \A k \in 1..Len(updated_files[1]) :
         (/\ HasParser(updated_files[1][k])
          /\ updated_files[1][k] \notin pending_urls[1]
          /\ ~ReportedLocked(k)) => Submitted(k)

\* a step of a poll call made with enqueue = False
DryRunStep == pc'[1] # pc[1] /\ ~enqueue'[1]

\* C6: what poll returns is the poller's result, in both modes, and a
\* poll call without enqueue changes neither the pending tasks nor the
\* locks.
ReturnsPollerResult ==
  /\ [](pc[1] = "done" => result[1] = updated_files[1])
  /\ [][DryRunStep => queue' = queue /\ locks' = locks]_vars

\* a dry run returned a file that an enqueue cycle would have submitted,
\* while a lock older than the timeout is still held
ReturnsPollerResultWitness ==
  /\ pc[1] = "done" /\ ~enqueue[1]
  /\ result[1] # <<>>
  /\ \E k \in 1..Len(result[1]) :
       /\ HasParser(result[1][k])
       /\ result[1][k] \notin PendingProcessUrls
  /\ ExpiredKeys(LockTimeout) # {}

\* a pending task of another type has the URL as its argument
OtherPending(url) == \E t \in Pending : t.name # "process" /\ t.url = url

\* C7: only 'process' jobs count as pending: when the poll call is over,
\* a discovered URL (with a parser) that is the argument of a pending job
\* of another type, was not in the pending snapshot and was not reported
\* locked, was submitted.
OtherJobTypesIgnored ==
  CycleOver =>
    \A k \in 1..Len(updated_files[1]) :
      (/\ HasParser(updated_files[1][k])
       /\ OtherPending(updated_files[1][k])
       /\ updated_files[1][k] \notin pending_urls[1]
       /\ ~ReportedLocked(k)) => Submitted(k)

(***************************************************************************)
(* The claims about clean().                                               *)
(***************************************************************************)
\* Pass A of the current run is committed, and nothing after it
AfterPassA == cpc = "passB_delete" /\ tbl = 1 /\ obs = 1

\* the historical sources of the station of r that overlap r
Overlapping(r) ==
  {h \in SourceIds :
     /\ sources[h].observation_type = "historical"
     /\ sources[h].wmo_station_id = sources[r].wmo_station_id
     /\ sources[h].dwd_station_id = sources[r].dwd_station_id
     /\ sources[r].first_record < sources[h].last_record}

\* C8: after Pass A, a weather row of a recent source that a historical
\* source of its station overlaps is gone when it is older than that
\* source's last_record and is kept otherwise; the rows of a recent
\* source that none overlaps are all kept.
OverlapPruning ==
  AfterPassA =>
    \A w \in weatherA :
      sources[w.source_id].observation_type = "recent" =>
        IF Overlapping(w.source_id) = {}
        THEN w \in weather
        ELSE \A h \in Overlapping(w.source_id) :
               w \in weather <=> w.timestamp >= sources[h].last_record

\* Pass A deleted a row of a recent source and kept its row at the threshold
OverlapPruningWitness ==
  /\ AfterPassA
  /\ \E w1, w2 \in weatherA :
       /\ w1.source_id = w2.source_id
       /\ sources[w1.source_id].observation_type = "recent"
       /\ w1 \notin weather /\ w2 \in weather
       /\ \E h \in Overlapping(w1.source_id) :
            w2.timestamp = sources[h].last_record

\* the tables whose UPDATE of Pass B is committed in the current run
UpdatedTables ==
  IF cpc \in {"passB_delete", "passB_update"} THEN 1..(tbl - 1)
  ELSE IF cpc \in {"passC", "done"} /\ run > 0 THEN 1..Len(expiry_intervals)
  ELSE {}

\* C9: once Pass B has finished for a table, every source with a row left
\* in the table has the least timestamp of its rows as first_record and
\* the greatest as last_record.
BoundsRecomputed ==
  \A k \in UpdatedTables :
    \A id \in SourceIds :
      LET left == {r.timestamp : r \in RowsOf(expiry_intervals[k].table, id)}
      IN left # {} => /\ sources[id].first_record = Min(left)
                      /\ sources[id].last_record = Max(left)

\* Pass B is over for weather: a source lost a row to it, kept another,
\* and its first_record moved to the row that is left
BoundsRecomputedWitness ==
  /\ cpc = "passB_delete" /\ tbl = 2
  /\ \E id \in SourceIds :
       /\ sources[id].observation_type \in {"forecast", "current"}
       /\ RowsOf("weather", id) # {}
       /\ sources[id].first_record # sourcesPrev[id].first_record
       /\ \E w \in weatherA : w.source_id = id /\ w \notin weather

\* C10: a run of clean that follows another, with the clock where it was
\* when the first run began, deletes no row, and ends with every source
\* as the run before left it.
RerunIdempotent ==
  (run >= 2 /\ ~ticked) =>
    /\ ndeleted = 0
    /\ cpc = "done" => sources = sourcesPrev

\* the second run is over at the clock of the first, which deleted rows
RerunIdempotentWitness ==
  /\ run = 2 /\ cpc = "done" /\ ~ticked
  /\ deletedPrev >= 2
  /\ ndeleted = 0

\* a step that commits one DELETE of Pass B
PassBDeleteStep ==
  /\ cpc = "passB_delete"
  /\ cpc' \in {"passB_delete", "passB_update"}
  /\ obs' # obs \/ cpc' = "passB_update"

\* the retention policy as the claim gives it, in hours
ClaimedInterval(table, observation_type) ==
  IF table = "weather" /\ observation_type = "forecast" THEN 3
  ELSE IF table = "weather" /\ observation_type = "current" THEN 48
  ELSE IF table = "synop" /\ observation_type = "synop" THEN 30
  ELSE 0 - 1

\* the rows a DELETE of Pass B for (table, observation_type) leaves
KeptByExpiry(table, observation_type) ==
  {r \in Rows(table) :
     ~ /\ sources[r.source_id].observation_type = observation_type
       /\ r.timestamp < now - ClaimedInterval(table, observation_type)}

\* C11: every DELETE of Pass B is for one of weather/forecast/3 hours,
\* weather/current/48 hours, synop/synop/30 hours, and removes from that
\* table exactly the rows of sources of that type older than now minus the
\* interval; every other row of either table stays.
AgeExpiry ==
  [][PassBDeleteStep =>
       LET table == expiry_intervals[tbl].table
           type == expiry_intervals[tbl].expires[obs].observation_type
       IN /\ ClaimedInterval(table, type) >= 0
          /\ Rows(table)' = KeptByExpiry(table, type)
          /\ table = "weather" => synop' = synop
          /\ table = "synop" => weather' = weather]_vars

\* Pass B is over for weather: it deleted a forecast row and kept the
\* row of a current source that is exactly 48 hours old
AgeExpiryWitness ==
  /\ cpc = "passB_update" /\ tbl = 1
  /\ \E w \in snap[2].weather \ weather :
       sources[w.source_id].observation_type = "forecast"
  /\ \E w \in weather :
       /\ sources[w.source_id].observation_type = "current"
       /\ w.timestamp = now - CurrentExpiry

\* a step that commits one DELETE of Pass C
PassCStep ==
  /\ cpc = "passC"
  /\ cpc' \in {"passC", "done"}
  /\ pat' # pat \/ cpc' = "done"

\* C12: a DELETE of Pass C removes exactly the ledger rows whose URL is
\* LIKE the pattern and whose parsed_at is older than now minus one week;
\* no other step changes the ledger, and no row is ever added or altered.
LedgerExpiry ==
  [][/\ PassCStep =>
          parsed_files' =
            {f \in parsed_files :
               ~ /\ Like(f.url, StationFilePattern)
                 /\ f.parsed_at < now - ParsedFilesExpiry}
     /\ ~PassCStep => parsed_files' = parsed_files
     /\ parsed_files' \subseteq parsed_files]_vars

\* Pass C deleted the ledger row of a station file
LedgerExpiryWitness ==
  /\ cpc = "done" /\ Len(snap) = 3
  /\ \E f \in snap[3].parsed_files \ parsed_files : f.url = UrlStationFile

\* C13: in every committed state every time-series row belongs to a
\* source of the catalogue, and every source with a row left has
\* first_record <= last_record.
PartialRunValid ==
  /\ \A r \in weather \cup synop : r.source_id \in DOMAIN sources
  /\ \A id \in DOMAIN sources :
       RowsOf("weather", id) \cup RowsOf("synop", id) # {} =>
         sources[id].first_record <= sources[id].last_record

\* the run is between the bounds update of weather and the deletes of
\* synop, has deleted rows and has moved the bounds of a source with rows
PartialRunValidWitness ==
  /\ cpc = "passB_delete" /\ tbl = 2
  /\ ndeleted > 0
  /\ \E id \in SourceIds :
       /\ RowsOf("weather", id) # {}
       /\ sources[id] # sourcesPrev[id]

\* the rows of a source, in either table, in a database d
RowsIn(d, id) == {r \in d.weather \cup d.synop : r.source_id = id}

\* the current run has deleted every row the source had when it began
Emptied(id) ==
  /\ snap # <<>>
  /\ RowsIn(snap[1], id) # {}
  /\ RowsIn(Db, id) = {}

\* C16: a source that the current run has left without rows is still in
\* the catalogue, with the first_record and last_record it had when the
\* run began.
StaleBoundsKept ==
  \A id \in SourceIds :
    Emptied(id) =>
      /\ id \in DOMAIN sources
      /\ sources[id].first_record = snap[1].sources[id].first_record
      /\ sources[id].last_record = snap[1].sources[id].last_record

\* a run is over that emptied a source of weather while the bounds of
\* another source were recomputed
StaleBoundsKeptWitness ==
  /\ cpc = "done"
  /\ \E id \in SourceIds :
       /\ Emptied(id)
       /\ snap[1].sources[id].observation_type # "synop"
  /\ sources # snap[1].sources

\* C20: in every committed state every row lies within the cached
\* [first_record, last_record] of its source.
BoundsContainRows ==
  \A r \in weather \cup synop :
    /\ sources[r.source_id].first_record <= r.timestamp
    /\ r.timestamp <= sources[r.source_id].last_record

\* Pass B has deleted the oldest row of a source and not yet recomputed
\* its bounds: first_record is older than every row left
BoundsContainRowsWitness ==
  /\ cpc = "passB_update" /\ tbl = 1
  /\ \E id \in SourceIds :
       /\ RowsOf("weather", id) # {}
       /\ \E w \in snap[2].weather \ weather : w.source_id = id
       /\ \A w \in RowsOf("weather", id) : sources[id].first_record < w.timestamp

\* a storage error has ended the run
Failed == cpc \in {"failedA", "failedB", "failedC"}

ObsoleteAtStart(w) ==
  /\ snap[1].sources[w.source_id].observation_type = "recent"
  /\ \E h \in SourceIds :
       /\ snap[1].sources[h].observation_type = "historical"
       /\ snap[1].sources[h].wmo_station_id
            = snap[1].sources[w.source_id].wmo_station_id
       /\ snap[1].sources[h].dwd_station_id
            = snap[1].sources[w.source_id].dwd_station_id
       /\ snap[1].sources[w.source_id].first_record
            < snap[1].sources[h].last_record
       /\ w.timestamp < snap[1].sources[h].last_record

\* the changes of Pass A are in the database: of the rows of recent and
\* historical sources, those it had to delete are gone, the others are there
PassAKept ==
  \A w \in snap[1].weather :
    snap[1].sources[w.source_id].observation_type \in {"recent", "historical"}
      => (w \in weather <=> ~ObsoleteAtStart(w))

RowCount(d) == Cardinality(d.weather) + Cardinality(d.synop)
                 + Cardinality(d.parsed_files)

Before(k) == {log[j] : j \in 1..(k - 1)}

\* the observation types the claim's policy expires in each table
ClaimedTypes(table) ==
  IF table = "weather" THEN {"forecast", "current"} ELSE {"synop"}

\* C15: in the order of the commits of a run, Pass A comes before every
\* DELETE of Pass B, the bounds update of a table after the DELETE of each
\* observation type of that table, and the ledger DELETE after the bounds
\* update of both tables.
PassOrdering ==
  \A k \in 1..Len(log) :
    /\ log[k].op = "expire" => [op |-> "overlap"] \in Before(k)
    /\ log[k].op = "overlap" => Before(k) = {}
    /\ log[k].op = "bounds" =>
         \A type \in ClaimedTypes(log[k].table) :
           [op |-> "expire", table |-> log[k].table,
            observation_type |-> type] \in Before(k)
    /\ log[k].op = "ledger" =>
         \A table \in {"weather", "synop"} :
           [op |-> "bounds", table |-> table] \in Before(k)

\* a run is over, all seven commits made, in which Pass A deleted a
\* weather row and Pass C a ledger row
PassOrderingWitness ==
  /\ cpc = "done"
  /\ Len(log) = 7
  /\ snap[2].weather # snap[1].weather
  /\ parsed_files # snap[3].parsed_files

(***************************************************************************)
(* Further claims about poll().                                            *)
(***************************************************************************)
\* a step of the poll call of the scheduler
PollerStep == pc'[1] # pc[1] \/ idx'[1] # idx[1]

\* C17: a step of poll leaves every lock as it is, but for a lock older
\* than 1800 that the expiry releases and returns: no step of poll takes
\* a lock, and none releases one that is not older than 1800.
LocksOnlyExpired ==
  [][PollerStep =>
       \A u \in Urls :
         \/ locks'[u] = locks[u]
         \/ /\ locks[u] # NoLock /\ locks[u] > 1800
            /\ locks'[u] = NoLock
            /\ u \in expired_locks'[1]]_vars

\* a cycle has returned that expired a stale lock and later skipped a file
\* as running: the lock a worker took meanwhile is still held
LocksOnlyExpiredWitness ==
  /\ pc[1] = "done" /\ enqueue[1]
  /\ expired_locks[1] # {}
  /\ \E k \in 1..Len(examined[1]) :
       /\ examined[1][k].locked
       /\ examined[1][k].url \in expired_locks[1]
       /\ locks[examined[1][k].url] \in 0..LockTimeout

\* the jobs the current cycle of poller p submitted for a URL
SubmittedFor(p, url) ==
  {k \in 1..Len(examined[p]) :
     examined[p][k].url = url /\ examined[p][k].submitted}

\* the pending 'process' jobs for a URL
PendingJobs(url) ==
  LET T == {t \in Pending : t.name = "process" /\ t.url = url}
  IN BagCardinality([t \in T |-> queue[t]])

\* C18: when two poll calls that both discovered a URL are over, at most
\* one 'process' job for it is pending.
NoConcurrentDuplicate ==
  \A u \in Urls :
    (/\ \A p \in Pollers :
          /\ pc[p] \in {"done", "raised"} /\ enqueue[p]
          /\ \E k \in 1..Len(updated_files[p]) : updated_files[p][k] = u)
      => PendingJobs(u) <= 1

\* C19: a cycle submits at most one job for each URL, however often the
\* poller's result lists it.
NoDuplicateInCycle ==
  \A u \in Urls : Cardinality(SubmittedFor(1, u)) <= 1

=============================================================================
